---- MODULE Spec2Model ----
(***************************************************************************)
(* A model of video_converter.py: the VideoConverter object's fields, the  *)
(* tree of video rows, the UI handlers, and the worker thread that runs    *)
(* convert_videos with its two adapters (Avidemux, HandBrake).             *)
(*                                                                         *)
(* File names are modelled as a sequence of stem tokens plus an extension, *)
(* so that os.path.splitext / os.path.basename / os.path.join and the      *)
(* suffix generation are computed, not assumed.                            *)
(***************************************************************************)
EXTENDS Integers, Sequences, FiniteSets, TLC

\* Bounds of the model: how many worker threads (runs) may be started, under a user
\* who makes every gesture (MaxRuns) and under a user who only sets up and re-runs
\* (MaxReruns).
MaxRuns == 1
MaxReruns == 2

\* The largest numeric suffix the properties look for.
MaxSuffix == 3

\* The number of entries a directory history may reach in the specifications that are
\* about conversions.
MaxEdits == 2

\* The number of entries a directory history keeps (lines 1026 and 1038).
HistoryLimit == 20

----------------------------------------------------------------------------
(* Paths and names                                                         *)

\* os.path.basename: the file name of a path
basename(p) == [stem |-> p.stem, ext |-> p.ext]

\* os.path.splitext(name)[0]
splitext0(n) == n.stem

\* os.path.join(directory, "<stem><ext>")
join(d, stem, ext) == [dir |-> d, stem |-> stem, ext |-> ext]

\* os.path.exists on the modelled disk (a function from paths to sizes)
exists(disk, p) == p \in DOMAIN disk

\* os.path.getsize
getsize(disk, p) == disk[p]

\* the disk with path p written with the given size
WriteFile(disk, p, size) == [q \in (DOMAIN disk) \cup {p} |-> IF q = p THEN size ELSE disk[q]]

\* os.remove
RemoveFile(disk, p) == [q \in (DOMAIN disk) \ {p} |-> disk[q]]

\* str.lower() on the extensions that occur
Lower(e) ==
    CASE e = ".MOV" -> ".mov"
      [] e = ".MP4" -> ".mp4"
      [] OTHER -> e

\* self.supported_formats
supported_formats ==
    [f \in {"MJPEG", "H.264"} |->
        IF f = "MJPEG"
        THEN [extension |-> ".avi", codec |-> "mjpeg",
              description |-> "DaVinci Resolve Compatible - Professional quality"]
        ELSE [extension |-> ".mp4", codec |-> "libx264", profile |-> "baseline",
              description |-> "Universal playback - Good compression"]]

\* video_extensions of scan_videos
video_extensions == {".mp4", ".avi", ".mov", ".mkv", ".wmv", ".flv", ".webm", ".m4v"}

\* the checkbox glyphs of the Select column
UNCHECKED == "[ ]"
CHECKED == "[x]"

\* the timestamp datetime.now().strftime("%Y%m%d_%H%M%S") produces
TimestampToken == "_YYYYMMDD_HHMMSS"

----------------------------------------------------------------------------
(* The environment: what is on disk                                        *)

\* Contents of the input directories, in Path.rglob order ("/dup" holds two files of
\* the same name in two subdirectories, and a directory named z.mkv).
InputTree(d) ==
    CASE d = "/in" ->
            << [dir |-> "/in", stem |-> <<"a">>, ext |-> ".mp4"],
               [dir |-> "/in", stem |-> <<"notes">>, ext |-> ".txt"],
               [dir |-> "/in", stem |-> <<"b">>, ext |-> ".MOV"] >>
      [] d = "/dup" ->
            << [dir |-> "/dup/x", stem |-> <<"a">>, ext |-> ".mp4"],
               [dir |-> "/dup", stem |-> <<"z">>, ext |-> ".mkv"],
               [dir |-> "/dup/y", stem |-> <<"a">>, ext |-> ".mp4"] >>
      [] OTHER -> << >>

\* directories that exist
ExistingDirs == {"/in", "/dup", "/out", "/other"}

\* values the user can put into the directory fields
InputDirChoices == {"", "/in", "/dup", "/missing"}
OutputDirChoices == {"", "/out"}

\* values the user can put into the output field while a run is active
LiveOutputDirChoices == {"/out", "/other"}

\* the entries rglob yields that are directories, not files
IsDirectory(p) == p = [dir |-> "/dup", stem |-> <<"z">>, ext |-> ".mkv"]

\* ffprobe: the entries whose duration the probe cannot read
ProbeFails(p) == p.stem = <<"b">> \/ p.dir = "/dup/x" \/ IsDirectory(p)

OutFile(stem, ext) == [dir |-> "/out", stem |-> stem, ext |-> ext]

\* Output-directory contents the program may find when it starts.
InitialDisks ==
    LET one(S) == [p \in S |-> 1]
    IN { one({OutFile(<<"a">>, ".avi"), OutFile(<<"a">>, ".mov")}),
         one({OutFile(<<"a">>, ".avi"), OutFile(<<"a">>, ".mov"), OutFile(<<"a", "_1">>, ".mov")}),
         one({OutFile(<<"a">>, ".mp4"), OutFile(<<"a", "_converted">>, ".mp4")}) }

\* What the program may find when it starts: the output files and the tools installed.
Environments ==
    {[disk |-> d, avidemux |-> x, handbrake |-> x] : d \in InitialDisks, x \in BOOLEAN}

----------------------------------------------------------------------------
(* State                                                                   *)

VARIABLES
    input_directory,      \* self.input_directory (StringVar)
    output_directory,     \* self.output_directory (StringVar)
    selected_format,      \* self.selected_format (StringVar)
    video_tree,           \* rows of self.video_tree: <<Select, Name, Size, Duration, Status>>
    video_files,          \* self.video_files
    selected_videos,      \* self.selected_videos
    is_converting,        \* self.is_converting
    stop_conversion,      \* self.stop_conversion
    conflict_resolution,  \* self.conflict_resolution
    convert_button,       \* self.convert_button: [state, text]
    selection_label,      \* the count shown by self.selection_label
    progress_var,         \* self.progress_var, in percent
    last_message,         \* what the latest handler call showed or logged ("" if nothing)
    threads,              \* the worker threads started so far, each with its locals
    disk,                 \* the output files on disk: path -> size
    avidemux_found,       \* whether one of the Avidemux candidate paths exists
    handbrake_found,      \* whether HandBrakeCLI can be executed
    input_history,        \* self.input_history
    input_history_index,  \* self.input_history_index (0-based, -1 when there is none)
    output_history,       \* self.output_history
    output_history_index  \* self.output_history_index

vars == << input_directory, output_directory, selected_format, video_tree, video_files,
           selected_videos, is_converting, stop_conversion, conflict_resolution,
           convert_button, selection_label, progress_var, last_message, threads, disk,
           avidemux_found, handbrake_found, input_history, input_history_index,
           output_history, output_history_index >>

history_vars == << input_history, input_history_index, output_history, output_history_index >>

ui_vars == << input_directory, output_directory, selected_format, video_tree, video_files,
              selected_videos, convert_button, selection_label >>

env_vars == << avidemux_found, handbrake_found >>

\* columns of a tree row, as 1-based positions of the Python tuple values[0..4]
SELECT == 1
NAME == 2
SIZE == 3
DURATION == 4
STATUS == 5

NoPath == [dir |-> "", stem |-> << >>, ext |-> ""]

\* the locals of convert_videos when the thread is started (processes: the external
\* processes the thread has started and not waited for; format_at_start,
\* output_at_start and selected_at_start: what the two controls and selected_videos
\* held when start_conversion started the thread)
NewThread ==
    [ pc |-> "collect", format_at_start |-> "", output_at_start |-> "",
      selected_at_start |-> << >>, selected_video_paths |-> << >>, i |-> 0, converted |-> 0,
      opened_folder |-> FALSE, video_path |-> NoPath, output_path |-> NoPath,
      statuses |-> << >>, opens |-> 0, stop_logged |-> FALSE, summary |-> "none",
      processes |-> 0 ]

Init ==
    /\ input_directory = ""
    /\ output_directory = ""
    /\ selected_format = "MJPEG"
    /\ video_tree = << >>
    /\ video_files = << >>
    /\ selected_videos = << >>
    /\ is_converting = FALSE
    /\ stop_conversion = FALSE
    /\ conflict_resolution = "overwrite"
    /\ convert_button = [state |-> "normal", text |-> "Convert Videos"]
    /\ selection_label = 0
    /\ progress_var = 0
    /\ last_message = ""
    /\ threads = << >>
    /\ input_history = << >>
    /\ input_history_index = -1
    /\ output_history = << >>
    /\ output_history_index = -1
    /\ \E e \in Environments :
          /\ disk = e.disk
          /\ avidemux_found = e.avidemux
          /\ handbrake_found = e.handbrake

----------------------------------------------------------------------------
(* Scanning and the selection state                                        *)

\* get_video_duration with nothing returned when the probe fails
get_video_duration_blank(p) == IF ProbeFails(p) THEN "" ELSE "0:05"

\* get_video_duration: "M:SS" of the probed seconds, or "Unknown"
get_video_duration(p) == IF ProbeFails(p) THEN "Unknown" ELSE "0:05"

\* get_file_size
get_file_size(p) == "1.0 MB"

\* the files rglob finds whose suffix is a video extension, in order
FoundVideos(d) == SelectSeq(InputTree(d), LAMBDA p : Lower(p.ext) \in video_extensions)

\* the row scan_videos inserts for a file
NewRow(p) == << UNCHECKED, basename(p), get_file_size(p), get_video_duration(p), "Ready" >>

\* the names of the checked rows, in tree order
CheckedNames(tree) ==
    LET checked == SelectSeq(tree, LAMBDA r : r[SELECT] = CHECKED)
    IN [k \in 1..Len(checked) |-> checked[k][NAME]]

\* update_selected_videos_list: rebuilds selected_videos, the counter and the button state
update_selected_videos_list(tree) ==
    LET names == CheckedNames(tree)
    IN /\ selected_videos' = names
       /\ selection_label' = Len(names)
       /\ convert_button' = [convert_button EXCEPT
                                !.state = IF Len(names) > 0 THEN "normal" ELSE "disabled"]

\* the last entries of a sequence, at most n of them (Python's seq[-n:])
LastEntries(seq, n) ==
    IF Len(seq) <= n THEN seq ELSE SubSeq(seq, Len(seq) - n + 1, Len(seq))

\* on_input_directory_change / on_output_directory_change keeping every entry
on_directory_change_unbounded(history, index, current_value) ==
    IF current_value # "" /\ (history = << >> \/ current_value # history[Len(history)])
    THEN [history |-> Append(history, current_value), index |-> Len(history)]
    ELSE [history |-> history, index |-> index]

\* on_input_directory_change / on_output_directory_change: the history and the index
\* after the write trace of the field has run for the value written
on_directory_change(history, index, current_value) ==
    IF current_value # "" /\ (history = << >> \/ current_value # history[Len(history)])
    THEN LET kept == LastEntries(Append(history, current_value), HistoryLimit)
         IN [history |-> kept, index |-> Len(kept) - 1]
    ELSE [history |-> history, index |-> index]

\* whether writing the value keeps the history within n entries
WithinEdits(history, index, value, n) ==
    Len(on_directory_change(history, index, value).history) <= n

\* the user edits the input directory field (typing, or browse_input); the write trace
\* records the value
set_input_directory(d) ==
    LET h == on_directory_change(input_history, input_history_index, d)
    IN /\ input_directory' = d
       /\ input_history' = h.history
       /\ input_history_index' = h.index
       /\ last_message' = ""
       /\ UNCHANGED << output_directory, selected_format, video_tree, video_files,
                       selected_videos, is_converting, stop_conversion,
                       conflict_resolution, convert_button, selection_label, progress_var,
                       threads, disk, env_vars, output_history, output_history_index >>

\* the user edits the output directory field (typing, or browse_output)
set_output_directory(d) ==
    LET h == on_directory_change(output_history, output_history_index, d)
    IN /\ output_directory' = d
       /\ output_history' = h.history
       /\ output_history_index' = h.index
       /\ last_message' = ""
       /\ UNCHANGED << input_directory, selected_format, video_tree, video_files,
                       selected_videos, is_converting, stop_conversion,
                       conflict_resolution, convert_button, selection_label, progress_var,
                       threads, disk, env_vars, input_history, input_history_index >>

\* undo_input_directory: one step back in the history; the write of the older value
\* runs the write trace again
undo_input_directory ==
    /\ IF input_history_index > 0
       THEN LET value == input_history[(input_history_index - 1) + 1]
                h == on_directory_change(input_history, input_history_index - 1, value)
            IN /\ input_directory' = value
               /\ input_history' = h.history
               /\ input_history_index' = h.index
       ELSE UNCHANGED << input_directory, input_history, input_history_index >>
    /\ last_message' = ""
    /\ UNCHANGED << output_directory, selected_format, video_tree, video_files,
                    selected_videos, is_converting, stop_conversion, conflict_resolution,
                    convert_button, selection_label, progress_var, threads, disk,
                    env_vars, output_history, output_history_index >>

\* redo_input_directory: one step forward in the history
redo_input_directory ==
    /\ IF input_history_index < Len(input_history) - 1
       THEN LET value == input_history[(input_history_index + 1) + 1]
                h == on_directory_change(input_history, input_history_index + 1, value)
            IN /\ input_directory' = value
               /\ input_history' = h.history
               /\ input_history_index' = h.index
       ELSE UNCHANGED << input_directory, input_history, input_history_index >>
    /\ last_message' = ""
    /\ UNCHANGED << output_directory, selected_format, video_tree, video_files,
                    selected_videos, is_converting, stop_conversion, conflict_resolution,
                    convert_button, selection_label, progress_var, threads, disk,
                    env_vars, output_history, output_history_index >>

\* undo_output_directory
undo_output_directory ==
    /\ IF output_history_index > 0
       THEN LET value == output_history[(output_history_index - 1) + 1]
                h == on_directory_change(output_history, output_history_index - 1, value)
            IN /\ output_directory' = value
               /\ output_history' = h.history
               /\ output_history_index' = h.index
       ELSE UNCHANGED << output_directory, output_history, output_history_index >>
    /\ last_message' = ""
    /\ UNCHANGED << input_directory, selected_format, video_tree, video_files,
                    selected_videos, is_converting, stop_conversion, conflict_resolution,
                    convert_button, selection_label, progress_var, threads, disk,
                    env_vars, input_history, input_history_index >>

\* redo_output_directory
redo_output_directory ==
    /\ IF output_history_index < Len(output_history) - 1
       THEN LET value == output_history[(output_history_index + 1) + 1]
                h == on_directory_change(output_history, output_history_index + 1, value)
            IN /\ output_directory' = value
               /\ output_history' = h.history
               /\ output_history_index' = h.index
       ELSE UNCHANGED << output_directory, output_history, output_history_index >>
    /\ last_message' = ""
    /\ UNCHANGED << input_directory, selected_format, video_tree, video_files,
                    selected_videos, is_converting, stop_conversion, conflict_resolution,
                    convert_button, selection_label, progress_var, threads, disk,
                    env_vars, input_history, input_history_index >>

set_selected_format(f) ==
    /\ selected_format' = f
    /\ last_message' = ""
    /\ UNCHANGED << input_directory, output_directory, video_tree, video_files,
                    selected_videos, is_converting, stop_conversion, conflict_resolution,
                    convert_button, selection_label, progress_var, threads, disk, env_vars, history_vars >>

\* clear_list emptying the tree and the file list only
clear_list_rows_only ==
    /\ video_tree' = << >>
    /\ video_files' = << >>
    /\ last_message' = ""
    /\ UNCHANGED << input_directory, output_directory, selected_format, selected_videos,
                    selection_label, convert_button, is_converting, stop_conversion,
                    conflict_resolution, progress_var, threads, disk, env_vars, history_vars >>

\* clear_list
clear_list ==
    /\ video_tree' = << >>
    /\ video_files' = << >>
    /\ selected_videos' = << >>
    /\ selection_label' = 0
    /\ convert_button' = [convert_button EXCEPT !.state = "disabled"]
    /\ last_message' = ""
    /\ UNCHANGED << input_directory, output_directory, selected_format, is_converting,
                    stop_conversion, conflict_resolution, progress_var, threads, disk,
                    env_vars, history_vars >>

\* scan_videos with the list cleared before the input directory is validated
scan_videos_clear_first ==
    /\ IF input_directory = "" \/ input_directory \notin ExistingDirs
       THEN /\ last_message' = IF input_directory = ""
                               THEN "Please select an input directory"
                               ELSE "Input directory does not exist"
            /\ video_tree' = << >>
            /\ video_files' = << >>
            /\ selected_videos' = << >>
            /\ selection_label' = 0
            /\ convert_button' = [convert_button EXCEPT !.state = "disabled"]
       ELSE LET found == FoundVideos(input_directory)
            IN /\ video_tree' = [k \in 1..Len(found) |-> NewRow(found[k])]
               /\ video_files' = found
               /\ selected_videos' = << >>
               /\ selection_label' = 0
               /\ convert_button' = [convert_button EXCEPT !.state = "disabled"]
               /\ last_message' = IF found = << >>
                                  THEN "No video files found in the selected directory"
                                  ELSE "Found video files"
    /\ UNCHANGED << input_directory, output_directory, selected_format, is_converting,
                    stop_conversion, conflict_resolution, progress_var, threads, disk,
                    env_vars, history_vars >>

\* scan_videos
scan_videos ==
    /\ IF input_directory = "" \/ input_directory \notin ExistingDirs
       THEN /\ last_message' = IF input_directory = ""
                               THEN "Please select an input directory"
                               ELSE "Input directory does not exist"
            /\ UNCHANGED << video_tree, video_files, selected_videos, selection_label,
                            convert_button >>
       ELSE LET found == FoundVideos(input_directory)
            IN /\ video_tree' = [k \in 1..Len(found) |-> NewRow(found[k])]
               /\ video_files' = found
               /\ selected_videos' = << >>
               /\ selection_label' = 0
               /\ convert_button' = [convert_button EXCEPT !.state = "disabled"]
               /\ last_message' = IF found = << >>
                                  THEN "No video files found in the selected directory"
                                  ELSE "Found video files"
    /\ UNCHANGED << input_directory, output_directory, selected_format, is_converting,
                    stop_conversion, conflict_resolution, progress_var, threads, disk,
                    env_vars, history_vars >>

\* the row with its checkbox inverted
ToggleRow(r) == [r EXCEPT ![SELECT] = IF r[SELECT] = UNCHECKED THEN CHECKED ELSE UNCHECKED]

\* on_video_click inverting the checkbox of every row
on_video_click_all(k) ==
    /\ k \in 1..Len(video_tree)
    /\ video_tree' = [j \in 1..Len(video_tree) |-> ToggleRow(video_tree[j])]
    /\ update_selected_videos_list(video_tree')
    /\ last_message' = ""
    /\ UNCHANGED << input_directory, output_directory, selected_format, video_files,
                    is_converting, stop_conversion, conflict_resolution, progress_var,
                    threads, disk, env_vars, history_vars >>

\* on_video_click on the checkbox cell of row k
on_video_click(k) ==
    /\ k \in 1..Len(video_tree)
    /\ video_tree' = [video_tree EXCEPT ![k] = ToggleRow(video_tree[k])]
    /\ update_selected_videos_list(video_tree')
    /\ last_message' = ""
    /\ UNCHANGED << input_directory, output_directory, selected_format, video_files,
                    is_converting, stop_conversion, conflict_resolution, progress_var,
                    threads, disk, env_vars, history_vars >>

\* select_all_videos
select_all_videos ==
    /\ video_tree' = [k \in 1..Len(video_tree) |-> [video_tree[k] EXCEPT ![SELECT] = CHECKED]]
    /\ update_selected_videos_list(video_tree')
    /\ last_message' = ""
    /\ UNCHANGED << input_directory, output_directory, selected_format, video_files,
                    is_converting, stop_conversion, conflict_resolution, progress_var,
                    threads, disk, env_vars, history_vars >>

\* deselect_all_videos
deselect_all_videos ==
    /\ video_tree' = [k \in 1..Len(video_tree) |-> [video_tree[k] EXCEPT ![SELECT] = UNCHECKED]]
    /\ update_selected_videos_list(video_tree')
    /\ last_message' = ""
    /\ UNCHANGED << input_directory, output_directory, selected_format, video_files,
                    is_converting, stop_conversion, conflict_resolution, progress_var,
                    threads, disk, env_vars, history_vars >>

\* the rows of the tree whose position is not in S, in order
DeleteRows(tree, S) ==
    LET keep == SelectSeq([k \in 1..Len(tree) |-> k], LAMBDA k : k \notin S)
    IN [j \in 1..Len(keep) |-> tree[keep[j]]]

\* remove_selected: deletes the highlighted rows S from the tree, and nothing else
remove_selected(S) ==
    /\ S # {}
    /\ S \subseteq 1..Len(video_tree)
    /\ video_tree' = DeleteRows(video_tree, S)
    /\ last_message' = ""
    /\ UNCHANGED << input_directory, output_directory, selected_format, video_files,
                    selected_videos, is_converting, stop_conversion, conflict_resolution,
                    convert_button, selection_label, progress_var, threads, disk, env_vars, history_vars >>

\* toggle_selected_videos: space or Return inverts the checkbox of each highlighted row
toggle_selected_videos(S) ==
    /\ S \subseteq 1..Len(video_tree)
    /\ video_tree' = [k \in 1..Len(video_tree) |->
                         IF k \in S THEN ToggleRow(video_tree[k]) ELSE video_tree[k]]
    /\ update_selected_videos_list(video_tree')
    /\ last_message' = ""
    /\ UNCHANGED << input_directory, output_directory, selected_format, video_files,
                    is_converting, stop_conversion, conflict_resolution, progress_var,
                    threads, disk, env_vars, history_vars >>

----------------------------------------------------------------------------
(* Conflict detection and destination names                                *)

\* whether a name occurs in a list (Python's "in")
InList(x, list) == \E k \in 1..Len(list) : list[k] = x

\* the destination check_destination_conflicts predicts for a source path
PredictedDestination(video_path, output_dir, format_name) ==
    join(output_dir, splitext0(basename(video_path)), supported_formats[format_name].extension)

\* the files check_destination_conflicts examines: those whose base name is in selected_videos
ConflictCandidates(files, selected) ==
    {files[k] : k \in {j \in 1..Len(files) : InList(basename(files[j]), selected)}}

\* check_destination_conflicts: the mapping source path -> existing destination path
check_destination_conflicts(files, selected, output_dir, format_name, dsk) ==
    IF output_dir = ""
    THEN << >>
    ELSE LET hit == {p \in ConflictCandidates(files, selected) :
                        exists(dsk, PredictedDestination(p, output_dir, format_name))}
         IN [p \in hit |-> PredictedDestination(p, output_dir, format_name)]

\* the destination convert_single_video (Avidemux) writes to before any renaming
AvidemuxDestination(video_path, output_dir) ==
    join(output_dir, splitext0(basename(video_path)), ".mov")

\* the destination convert_with_handbrake writes to before any renaming
HandbrakeDestination(video_path, output_dir) ==
    join(output_dir, splitext0(basename(video_path)) \o << "_converted" >>, ".mp4")

\* the counter loop that tries one suffixed name and takes it without looking
SuffixSearchOnce(dsk, directory, name, ext, base_path, counter) ==
    IF ~exists(dsk, base_path)
    THEN base_path
    ELSE join(directory, name \o << "_" \o ToString(counter) >>, ext)

\* the counter loop shared by generate_unique_filename and convert_with_handbrake:
\* "<name>_<counter><ext>" for the first counter whose path does not exist
RECURSIVE SuffixSearch(_, _, _, _, _, _)
SuffixSearch(dsk, directory, name, ext, base_path, counter) ==
    IF ~exists(dsk, base_path)
    THEN base_path
    ELSE SuffixSearch(dsk, directory, name, ext,
                      join(directory, name \o << "_" \o ToString(counter) >>, ext),
                      counter + 1)

\* generate_unique_filename
generate_unique_filename(dsk, base_path, strategy) ==
    CASE strategy = "suffix" ->
            SuffixSearch(dsk, base_path.dir, base_path.stem, base_path.ext, base_path, 1)
      [] strategy = "timestamp" ->
            join(base_path.dir, base_path.stem \o << TimestampToken >>, base_path.ext)
      [] OTHER -> base_path

----------------------------------------------------------------------------
(* start_conversion                                                        *)

\* the answers of the conflict dialog (handle_filename_conflicts)
DialogAnswers == {"overwrite", "skip", "suffix", "timestamp", "cancel"}

\* start_conversion while a run is active: request cancellation
request_stop ==
    /\ stop_conversion' = TRUE
    /\ convert_button' = [convert_button EXCEPT !.text = "Convert Videos"]
    /\ last_message' = "Stopping conversion..."
    /\ UNCHANGED << input_directory, output_directory, selected_format, video_tree,
                    video_files, selected_videos, is_converting, conflict_resolution,
                    selection_label, progress_var, threads, disk, env_vars, history_vars >>

\* start_conversion going on to start the run where it should have returned
refuse_start_fallthrough(message) ==
    /\ conflict_resolution' = "cancel"
    /\ last_message' = message
    /\ is_converting' = TRUE
    /\ stop_conversion' = FALSE
    /\ convert_button' = [convert_button EXCEPT !.text = "Stop Conversion"]
    /\ threads' = Append(threads, NewThread)
    /\ UNCHANGED << input_directory, output_directory, selected_format, video_tree,
                    video_files, selected_videos, selection_label, progress_var, disk,
                    env_vars, history_vars >>

\* start_conversion refused by one of the three configuration checks, or by Cancel
refuse_start(message) ==
    /\ last_message' = message
    /\ UNCHANGED << input_directory, output_directory, selected_format, video_tree,
                    video_files, selected_videos, is_converting, stop_conversion,
                    conflict_resolution, convert_button, selection_label, progress_var,
                    threads, disk, env_vars, history_vars >>

\* start_conversion starting the worker with the cancellation flag left as it is
begin_run_keep_stop(policy, message) ==
    /\ conflict_resolution' = policy
    /\ last_message' = message
    /\ is_converting' = TRUE
    /\ convert_button' = [convert_button EXCEPT !.text = "Stop Conversion"]
    /\ threads' = Append(threads, [NewThread EXCEPT !.format_at_start = selected_format,
                                                     !.output_at_start = output_directory,
                                                     !.selected_at_start = selected_videos])
    /\ UNCHANGED << input_directory, output_directory, selected_format, video_tree,
                    video_files, selected_videos, stop_conversion, selection_label,
                    progress_var, disk, env_vars, history_vars >>

\* start_conversion accepted: the policy is stored and the worker thread is started
begin_run(policy, message) ==
    /\ conflict_resolution' = policy
    /\ last_message' = message
    /\ is_converting' = TRUE
    /\ stop_conversion' = FALSE
    /\ convert_button' = [convert_button EXCEPT !.text = "Stop Conversion"]
    /\ threads' = Append(threads, [NewThread EXCEPT !.format_at_start = selected_format,
                                                     !.output_at_start = output_directory,
                                                     !.selected_at_start = selected_videos])
    /\ UNCHANGED << input_directory, output_directory, selected_format, video_tree,
                    video_files, selected_videos, selection_label, progress_var, disk,
                    env_vars, history_vars >>

\* start_conversion with the stored policy kept when no conflict is detected
start_conversion_keep(answer, limit) ==
    /\ convert_button.state = "normal"
    /\ IF is_converting
       THEN request_stop
       ELSE IF video_files = << >>
       THEN refuse_start("No videos to convert")
       ELSE IF selected_videos = << >>
       THEN refuse_start("Please select videos to convert")
       ELSE IF output_directory = ""
       THEN refuse_start("Please select an output directory")
       ELSE LET conflicts == check_destination_conflicts(video_files, selected_videos,
                                 output_directory, selected_format, disk)
            IN IF DOMAIN conflicts # {}
               THEN IF answer = "cancel"
                    THEN refuse_start("Conversion cancelled due to filename conflicts")
                    ELSE /\ Len(threads) < limit
                         /\ begin_run(answer, "Using conflict resolution: " \o answer)
               ELSE /\ Len(threads) < limit
                    /\ begin_run(conflict_resolution, "")

\* start_conversion: the click on the Convert/Stop button, with the dialog's answer
\* (limit: the bound on the threads started)
start_conversion(answer, limit) ==
    /\ convert_button.state = "normal"
    /\ IF is_converting
       THEN request_stop
       ELSE IF video_files = << >>
       THEN refuse_start("No videos to convert")
       ELSE IF selected_videos = << >>
       THEN refuse_start("Please select videos to convert")
       ELSE IF output_directory = ""
       THEN refuse_start("Please select an output directory")
       ELSE LET conflicts == check_destination_conflicts(video_files, selected_videos,
                                 output_directory, selected_format, disk)
            IN IF DOMAIN conflicts # {}
               THEN IF answer = "cancel"
                    THEN refuse_start("Conversion cancelled due to filename conflicts")
                    ELSE /\ Len(threads) < limit
                         /\ begin_run(answer, "Using conflict resolution: " \o answer)
               ELSE /\ Len(threads) < limit
                    /\ begin_run("overwrite", "")

----------------------------------------------------------------------------
(* The worker thread: convert_videos and the two adapters                  *)

\* the first path of video_files whose base name is the row's name, if any
FirstMatch(files, name) ==
    LET idx == {k \in 1..Len(files) : basename(files[k]) = name}
    IN IF idx = {}
       THEN << >>
       ELSE << files[CHOOSE k \in idx : \A j \in idx : k <= j] >>

\* selected_video_paths as convert_videos builds it from the checked rows
RECURSIVE SelectedVideoPaths(_, _)
SelectedVideoPaths(tree, files) ==
    IF tree = << >>
    THEN << >>
    ELSE (IF Head(tree)[SELECT] = CHECKED THEN FirstMatch(files, Head(tree)[NAME]) ELSE << >>)
         \o SelectedVideoPaths(Tail(tree), files)

\* update_progress: the percentage written to progress_var
update_progress(current, total) == (current * 100) \div total

\* the position of the row update_video_status writes to: the first row with the name
StatusRow(tree, video_path) ==
    LET idx == {k \in 1..Len(tree) : tree[k][NAME] = basename(video_path)}
    IN IF idx = {} THEN 0 ELSE CHOOSE k \in idx : \A j \in idx : k <= j

\* the column update_video_status assigns: values[3]
StatusSlot == 3 + 1

\* update_video_status
update_video_status(tree, video_path, status) ==
    LET k == StatusRow(tree, video_path)
    IN IF k = 0 THEN tree ELSE [tree EXCEPT ![k][StatusSlot] = status]

\* open_directory: whether xdg-open is run on the path
open_directory(path) == path # "" /\ path \in ExistingDirs

\* what an external tool may have done when it exits: exit code and effect on its output file
ToolOutcomes ==
    { [rc |-> 0, effect |-> "data"], [rc |-> 0, effect |-> "empty"],
      [rc |-> 0, effect |-> "none"], [rc |-> 1, effect |-> "none"],
      [rc |-> 1, effect |-> "data"] }

\* what a terminated tool may leave behind
TerminatedEffects == {"none", "data"}

ApplyEffect(dsk, path, effect) ==
    CASE effect = "data" -> WriteFile(dsk, path, 1)
      [] effect = "empty" -> WriteFile(dsk, path, 0)
      [] OTHER -> dsk

\* the thread with one field replaced
SetThread(t, th) == threads' = [threads EXCEPT ![t] = th]

\* lines 532-547: the worker reads the checked rows
collect(t) ==
    /\ threads[t].pc = "collect"
    /\ SetThread(t, [threads[t] EXCEPT
            !.selected_video_paths = SelectedVideoPaths(video_tree, video_files),
            !.pc = "loop"])
    /\ UNCHANGED << ui_vars, is_converting, stop_conversion, conflict_resolution,
                    progress_var, last_message, disk, env_vars, history_vars >>

\* file_done with the loop left as soon as a file fails
file_done_abort(t, th, ok) ==
    LET status == IF ok THEN "Completed" ELSE "Failed"
        opening == ok /\ ~th.opened_folder
    IN /\ video_tree' = update_video_status(video_tree, th.video_path, status)
       /\ SetThread(t, [th EXCEPT
               !.converted = IF ok THEN @ + 1 ELSE @,
               !.opened_folder = IF opening THEN TRUE ELSE @,
               !.opens = IF opening /\ open_directory(output_directory) THEN @ + 1 ELSE @,
               !.statuses = Append(@, status),
               !.i = @ + 1,
               !.video_path = NoPath,
               !.output_path = NoPath,
               !.pc = IF ok THEN "loop" ELSE "finishing"])

\* file_done opening the output directory after every converted file
file_done_open_always(t, th, ok) ==
    LET status == IF ok THEN "Completed" ELSE "Failed"
    IN /\ video_tree' = update_video_status(video_tree, th.video_path, status)
       /\ SetThread(t, [th EXCEPT
               !.converted = IF ok THEN @ + 1 ELSE @,
               !.opened_folder = IF ok THEN TRUE ELSE @,
               !.opens = IF ok /\ open_directory(output_directory) THEN @ + 1 ELSE @,
               !.statuses = Append(@, status),
               !.i = @ + 1,
               !.video_path = NoPath,
               !.output_path = NoPath,
               !.pc = "loop"])

\* lines 561-578: the adapter of the current file has returned ok
file_done(t, th, ok) ==
    LET status == IF ok THEN "Completed" ELSE "Failed"
        opening == ok /\ ~th.opened_folder
    IN /\ video_tree' = update_video_status(video_tree, th.video_path, status)
       /\ SetThread(t, [th EXCEPT
               !.converted = IF ok THEN @ + 1 ELSE @,
               !.opened_folder = IF opening THEN TRUE ELSE @,
               !.opens = IF opening /\ open_directory(output_directory) THEN @ + 1 ELSE @,
               !.statuses = Append(@, status),
               !.i = @ + 1,
               !.video_path = NoPath,
               !.output_path = NoPath,
               !.pc = "loop"])

\* convert_single_video up to the Popen call (lines 599-681)
avidemux_start(t, th) ==
    LET dest == AvidemuxDestination(th.video_path, output_directory)
    IN IF ~avidemux_found
       THEN /\ file_done(t, th, FALSE)
            /\ UNCHANGED disk
       ELSE IF exists(disk, dest) /\ conflict_resolution = "skip"
       THEN /\ file_done(t, th, TRUE)
            /\ UNCHANGED disk
       ELSE /\ SetThread(t, [th EXCEPT
                    !.output_path =
                        IF exists(disk, dest) /\ conflict_resolution \in {"suffix", "timestamp"}
                        THEN generate_unique_filename(disk, dest, conflict_resolution)
                        ELSE dest,
                    !.processes = @ + 1,
                    !.pc = "avidemux"])
            /\ UNCHANGED << video_tree, disk >>

\* convert_with_handbrake up to the Popen call (lines 1100-1129)
handbrake_start(t, th) ==
    LET dest == HandbrakeDestination(th.video_path, output_directory)
        taken == exists(disk, dest)
        output_path ==
            IF taken /\ conflict_resolution # "overwrite"
            THEN SuffixSearch(disk, output_directory, dest.stem, dest.ext, dest, 1)
            ELSE dest
        dsk == IF taken /\ conflict_resolution = "overwrite" THEN RemoveFile(disk, dest) ELSE disk
    IN IF taken /\ conflict_resolution = "skip"
       THEN /\ file_done(t, th, TRUE)
            /\ UNCHANGED disk
       ELSE IF ~handbrake_found
       THEN /\ file_done(t, th, FALSE)
            /\ disk' = dsk
       ELSE /\ SetThread(t, [th EXCEPT !.output_path = output_path,
                                       !.processes = @ + 1,
                                       !.pc = "handbrake"])
            /\ disk' = dsk
            /\ UNCHANGED video_tree

\* the head of the loop without the look at stop_conversion
loop_unchecked(t) ==
    LET th == threads[t]
        total_videos == Len(th.selected_video_paths)
    IN /\ th.pc = "loop"
       /\ IF th.i >= total_videos
          THEN /\ SetThread(t, [th EXCEPT !.pc = "finishing"])
               /\ UNCHANGED << video_tree, progress_var, disk >>
          ELSE LET cur == [th EXCEPT !.video_path = th.selected_video_paths[th.i + 1]]
               IN /\ progress_var' = update_progress(th.i, total_videos)
                  /\ IF selected_format = "H.264"
                     THEN handbrake_start(t, cur)
                     ELSE avidemux_start(t, cur)
       /\ UNCHANGED << input_directory, output_directory, selected_format, video_files,
                       selected_videos, convert_button, selection_label, is_converting,
                       stop_conversion, conflict_resolution, last_message, env_vars, history_vars >>

\* lines 549-559: the head of the loop, and the dispatch of the next file
loop(t) ==
    LET th == threads[t]
        total_videos == Len(th.selected_video_paths)
    IN /\ th.pc = "loop"
       /\ IF th.i >= total_videos
          THEN /\ SetThread(t, [th EXCEPT !.pc = "finishing"])
               /\ UNCHANGED << video_tree, progress_var, disk >>
          ELSE IF stop_conversion
          THEN /\ SetThread(t, [th EXCEPT !.stop_logged = TRUE, !.pc = "finishing"])
               /\ UNCHANGED << video_tree, progress_var, disk >>
          ELSE LET cur == [th EXCEPT !.video_path = th.selected_video_paths[th.i + 1]]
               IN /\ progress_var' = update_progress(th.i, total_videos)
                  /\ IF selected_format = "H.264"
                     THEN handbrake_start(t, cur)
                     ELSE avidemux_start(t, cur)
       /\ UNCHANGED << input_directory, output_directory, selected_format, video_files,
                       selected_videos, convert_button, selection_label, is_converting,
                       stop_conversion, conflict_resolution, last_message, env_vars, history_vars >>

\* the Avidemux read loop going on to read without a look at the stop flag
avidemux_check_blind(t) ==
    LET th == threads[t]
    IN /\ th.pc = "avidemux"
       /\ SetThread(t, [th EXCEPT !.pc = "avidemux_read"])
       /\ UNCHANGED << input_directory, output_directory, selected_format, video_tree,
                       video_files, selected_videos, convert_button, selection_label,
                       is_converting, stop_conversion, conflict_resolution, progress_var,
                       last_message, disk, env_vars, history_vars >>

\* lines 684-687: the Avidemux read loop looks at the stop flag
avidemux_check(t) ==
    LET th == threads[t]
    IN /\ th.pc = "avidemux"
       /\ IF stop_conversion
          THEN \E effect \in TerminatedEffects :
                  /\ disk' = ApplyEffect(disk, th.output_path, effect)
                  /\ file_done(t, th, FALSE)
          ELSE /\ SetThread(t, [th EXCEPT !.pc = "avidemux_read"])
               /\ UNCHANGED << video_tree, disk >>
       /\ UNCHANGED << input_directory, output_directory, selected_format, video_files,
                       selected_videos, convert_button, selection_label, is_converting,
                       stop_conversion, conflict_resolution, progress_var, last_message,
                       env_vars, history_vars >>

\* lines 689-696: readline returns a line of output
avidemux_line(t) ==
    /\ threads[t].pc = "avidemux_read"
    /\ SetThread(t, [threads[t] EXCEPT !.pc = "avidemux"])
    /\ UNCHANGED << ui_vars, is_converting, stop_conversion, conflict_resolution,
                    progress_var, last_message, disk, env_vars, history_vars >>

\* lines 702-722: how convert_single_video classifies the finished process
avidemux_success(return_code, dsk, output_path) ==
    return_code = 0 /\ exists(dsk, output_path) /\ getsize(dsk, output_path) > 0

\* lines 691-722: the process has exited; the result is classified
avidemux_exit(t) ==
    LET th == threads[t]
    IN /\ th.pc = "avidemux_read"
       /\ \E o \in ToolOutcomes :
             /\ disk' = ApplyEffect(disk, th.output_path, o.effect)
             /\ file_done(t, [th EXCEPT !.processes = @ - 1],
                          avidemux_success(o.rc, disk', th.output_path))
       /\ UNCHANGED << input_directory, output_directory, selected_format, video_files,
                       selected_videos, convert_button, selection_label, is_converting,
                       stop_conversion, conflict_resolution, progress_var, last_message,
                       env_vars, history_vars >>

\* lines 1133-1138: how convert_with_handbrake classifies the finished process
handbrake_success(return_code, dsk, output_path) ==
    return_code = 0

\* convert_with_handbrake giving up the file when the stop flag is set
handbrake_exit_cancellable(t) ==
    LET th == threads[t]
    IN /\ th.pc = "handbrake"
       /\ IF stop_conversion
          THEN /\ file_done(t, th, FALSE)
               /\ UNCHANGED disk
          ELSE \E o \in ToolOutcomes :
                  /\ disk' = ApplyEffect(disk, th.output_path, o.effect)
                  /\ file_done(t, [th EXCEPT !.processes = @ - 1],
                               handbrake_success(o.rc, disk', th.output_path))
       /\ UNCHANGED << input_directory, output_directory, selected_format, video_files,
                       selected_videos, convert_button, selection_label, is_converting,
                       stop_conversion, conflict_resolution, progress_var, last_message,
                       env_vars, history_vars >>

\* lines 1129-1138: HandBrakeCLI runs to its end; the result is classified
handbrake_exit(t) ==
    LET th == threads[t]
    IN /\ th.pc = "handbrake"
       /\ \E o \in ToolOutcomes :
             /\ disk' = ApplyEffect(disk, th.output_path, o.effect)
             /\ file_done(t, [th EXCEPT !.processes = @ - 1],
                          handbrake_success(o.rc, disk', th.output_path))
       /\ UNCHANGED << input_directory, output_directory, selected_format, video_files,
                       selected_videos, convert_button, selection_label, is_converting,
                       stop_conversion, conflict_resolution, progress_var, last_message,
                       env_vars, history_vars >>

\* lines 584-585: the final progress update and the reset of is_converting;
\* update_progress divides by total, so a run over zero files raises ZeroDivisionError
finish(t) ==
    LET th == threads[t]
        total_videos == Len(th.selected_video_paths)
    IN /\ th.pc = "finishing"
       /\ IF total_videos = 0
          THEN /\ SetThread(t, [th EXCEPT !.pc = "crashed"])
               /\ UNCHANGED << progress_var, is_converting >>
          ELSE /\ progress_var' = update_progress(total_videos, total_videos)
               /\ is_converting' = FALSE
               /\ SetThread(t, [th EXCEPT !.pc = "reporting"])
       /\ UNCHANGED << ui_vars, stop_conversion, conflict_resolution, last_message, disk,
                       env_vars, history_vars >>

\* lines 588-595: which summary the worker reports
Summary(stop, converted, total_videos) ==
    IF stop THEN "stopped"
    ELSE IF converted = total_videos THEN "success"
    ELSE "partial"

\* lines 586-595: the button label is restored and the summary is reported
report(t) ==
    LET th == threads[t]
    IN /\ th.pc = "reporting"
       /\ convert_button' = [convert_button EXCEPT !.text = "Convert Videos"]
       /\ SetThread(t, [th EXCEPT
               !.summary = Summary(stop_conversion, th.converted, Len(th.selected_video_paths)),
               !.pc = "done"])
       /\ UNCHANGED << input_directory, output_directory, selected_format, video_tree,
                       video_files, selected_videos, selection_label, is_converting,
                       stop_conversion, conflict_resolution, progress_var, last_message,
                       disk, env_vars, history_vars >>

----------------------------------------------------------------------------
(* The specification                                                       *)

\* The user's gestures on the fields and the list.
Edit ==
    \/ \E d \in InputDirChoices :
          /\ WithinEdits(input_history, input_history_index, d, MaxEdits)
          /\ set_input_directory(d)
    \/ \E d \in OutputDirChoices : set_output_directory(d)
    \/ \E f \in DOMAIN supported_formats : set_selected_format(f)
    \/ scan_videos
    \/ clear_list
    \/ \E k \in 1..Len(video_tree) : on_video_click(k)
    \/ select_all_videos
    \/ deselect_all_videos
    \/ \E S \in SUBSET (1..Len(video_tree)) : remove_selected(S)
    \/ \E S \in SUBSET (1..Len(video_tree)) : toggle_selected_videos(S)

\* The steps of worker thread t.
Worker(t) ==
    \/ collect(t)
    \/ loop(t)
    \/ avidemux_check(t)
    \/ avidemux_line(t)
    \/ avidemux_exit(t)
    \/ handbrake_exit(t)
    \/ finish(t)
    \/ report(t)

\* The program with a user who edits the fields and the list while is_converting is
\* false and a run may still be started, and who may press the Convert/Stop button at
\* any time.
Next ==
    \/ ~is_converting /\ Len(threads) < MaxRuns /\ Edit
    \/ \E answer \in DialogAnswers : start_conversion(answer, MaxRuns)
    \/ \E t \in 1..Len(threads) : Worker(t)

Spec == Init /\ [][Next]_vars

\* The same program where a started worker thread keeps running and the external
\* process it reads from ends after finitely many lines of output.
SpecFair ==
    /\ Spec
    /\ WF_vars(\E t \in 1..Len(threads) : Worker(t))
    /\ SF_vars(\E t \in 1..Len(threads) : avidemux_exit(t))

\* The gestures of a user who fills in the directories, scans and checks files, and
\* leaves the format at its default (MJPEG, the Avidemux adapter).
Setup ==
    \/ set_input_directory("/in")
    \/ set_output_directory("/out")
    \/ scan_videos
    \/ \E k \in 1..Len(video_tree) : on_video_click(k)
    \/ select_all_videos

\* The program with a user who sets up while is_converting is false and presses the
\* Convert/Stop button at any time, so that runs follow one another on the same list.
NextRerun ==
    \/ ~is_converting /\ Len(threads) < MaxReruns /\ Setup
    \/ \E answer \in DialogAnswers : start_conversion(answer, MaxReruns)
    \/ \E t \in 1..Len(threads) :
          \/ collect(t)
          \/ loop(t)
          \/ avidemux_check(t)
          \/ avidemux_line(t)
          \/ avidemux_exit(t)
          \/ finish(t)
          \/ report(t)

\* the program started where Avidemux is installed
InitRerun == Init /\ avidemux_found

SpecRerun == InitRerun /\ [][NextRerun]_vars

\* The gestures of a user who goes on using the window while a run is active.
LiveEdit ==
    \/ \E f \in DOMAIN supported_formats : set_selected_format(f)
    \/ \E d \in LiveOutputDirChoices :
          /\ WithinEdits(output_history, output_history_index, d, MaxEdits)
          /\ set_output_directory(d)
    \/ \E k \in 1..Len(video_tree) : on_video_click(k)

\* The program with a user who sets up and picks a format while is_converting is false,
\* and who changes the format, the output directory and the selection during the run.
NextLive ==
    \/ ~is_converting /\ Len(threads) < MaxRuns /\ Setup
    \/ ~is_converting /\ Len(threads) < MaxRuns
          /\ \E f \in DOMAIN supported_formats : set_selected_format(f)
    \/ is_converting /\ LiveEdit
    \/ \E answer \in DialogAnswers : start_conversion(answer, MaxRuns)
    \/ \E t \in 1..Len(threads) : Worker(t)

\* the program started where both tools are installed
InitLive == Init /\ avidemux_found /\ handbrake_found

SpecLive == InitLive /\ [][NextLive]_vars

\* values the user puts into the directory fields again and again
RepeatedInputDirChoices == {"", "/in", "/dup"}
RepeatedOutputDirChoices == {"", "/out", "/other"}

\* The program with a user who only edits the two directory fields and uses their undo
\* and redo.
NextHistory ==
    \/ \E d \in RepeatedInputDirChoices : set_input_directory(d)
    \/ \E d \in RepeatedOutputDirChoices : set_output_directory(d)
    \/ undo_input_directory
    \/ redo_input_directory
    \/ undo_output_directory
    \/ redo_output_directory

SpecHistory == Init /\ [][NextHistory]_vars

----------------------------------------------------------------------------
(* Properties                                                              *)

\* the status words the orchestrator assigns
StatusWords == {"Converting", "Completed", "Failed"}

\* The status recorded for a row: the word update_video_status last assigned to it,
\* or the "Ready" the scan gave it when none was assigned yet.
RecordedStatus(row) ==
    IF row[StatusSlot] \in StatusWords THEN row[StatusSlot] ELSE row[STATUS]

\* the steps of the per-file state machine Ready -> Converting -> {Completed, Failed}
StatusStep(s1, s2) ==
    \/ s1 = s2
    \/ << s1, s2 >> \in { << "Ready", "Converting" >>, << "Converting", "Completed" >>,
                          << "Converting", "Failed" >> }

\* thread t is inside an adapter, a process running
InAdapter(th) == th.pc \in {"avidemux", "avidemux_read", "handbrake"}

\* thread t is executing convert_videos
Alive(th) == th.pc \notin {"done", "crashed"}

\* in this step thread t has recorded the result of one more file
Recorded(t) ==
    /\ t \in 1..Len(threads)
    /\ Len(threads'[t].statuses) = Len(threads[t].statuses) + 1

\* the last element of a non-empty sequence
Last(seq) == seq[Len(seq)]

\* C1: in every step of a run (the first or a later one over the same list) the recorded
\* status of every row stays as it is or moves along Ready -> Converting -> Completed
\* or Ready -> Converting -> Failed; a Completed or Failed row never changes again.
StatusFollowsStateMachine ==
    [][ (threads' # threads /\ Len(video_tree') = Len(video_tree))
        => \A k \in 1..Len(video_tree) :
              StatusStep(RecordedStatus(video_tree[k]), RecordedStatus(video_tree'[k])) ]_vars

\* C2: while the adapter of a file is running the file's Status field is Converting, and
\* when the adapter returns the Status field is Completed on success and Failed on
\* failure, the other fields of the row being unchanged.
StatusFieldTracksAdapter ==
    [][ \A t \in 1..Len(threads) :
          LET th == threads[t]
              k == StatusRow(video_tree, th.video_path)
          IN /\ (InAdapter(th) /\ k # 0) => video_tree[k][STATUS] = "Converting"
             /\ (Recorded(t) /\ k # 0 /\ Len(video_tree') = Len(video_tree))
                   => /\ video_tree'[k][STATUS] = Last(threads'[t].statuses)
                      /\ \A c \in {SELECT, NAME, SIZE, DURATION} :
                            video_tree'[k][c] = video_tree[k][c] ]_vars

\* C3: at every moment at most one worker thread is executing convert_videos.
AtMostOneRunActive ==
    Cardinality({t \in 1..Len(threads) : Alive(threads[t])}) <= 1

\* C4: when the loop stops at the cancellation check after k of n files, no further file
\* is attempted, the files not attempted are still Ready in a first run, and the
\* summary reported is user-stopped.
CancelledRunReportsStopped ==
    \A t \in 1..Len(threads) :
        LET th == threads[t]
        IN th.stop_logged
           => /\ Len(th.statuses) = th.i
              /\ th.i < Len(th.selected_video_paths)
              /\ th.pc = "done" => th.summary = "stopped"

\* C5: the file that is in flight when the Avidemux adapter sees the cancellation flag
\* is not recorded as Failed.
CancelledFileNotFailed ==
    [][ \A t \in 1..Len(threads) :
          (threads[t].pc = "avidemux" /\ stop_conversion /\ Recorded(t))
             => Last(threads'[t].statuses) # "Failed" ]_vars

\* C6: whenever an adapter whose process ran reports success (the file is recorded as
\* Completed), the destination file exists with non-zero size.
SuccessNeedsNonEmptyOutput ==
    [][ \A t \in 1..Len(threads) :
          (InAdapter(threads[t]) /\ Recorded(t) /\ Last(threads'[t].statuses) = "Completed")
             => /\ exists(disk', threads[t].output_path)
                /\ getsize(disk', threads[t].output_path) > 0 ]_vars

\* C7: a run that has left its loop without having seen the cancellation flag has
\* attempted every file of its list, whatever the results of the earlier files were.
FailureDoesNotAbortBatch ==
    \A t \in 1..Len(threads) :
        LET th == threads[t]
        IN th.pc \in {"finishing", "reporting", "done", "crashed"}
           => \/ th.stop_logged
              \/ Len(th.statuses) = Len(th.selected_video_paths)

\* a finished run, not cancelled, in which a file failed and a later file was attempted
FailureThenLaterFileAttempted ==
    \E t \in 1..Len(threads) :
        LET th == threads[t]
        IN /\ th.pc = "done"
           /\ ~th.stop_logged
           /\ Len(th.selected_video_paths) = 2
           /\ th.selected_video_paths[1] # th.selected_video_paths[2]
           /\ th.statuses = << "Failed", "Completed" >>

\* the list and the tree describe the same files, row by row
Aligned ==
    /\ Len(video_tree) = Len(video_files)
    /\ \A k \in 1..Len(video_tree) : video_tree[k][NAME] = basename(video_files[k])

\* the files whose row is checked
SelectedFiles ==
    {video_files[k] : k \in {j \in 1..Len(video_tree) : video_tree[j][SELECT] = CHECKED}}

\* C8: conflict detection returns exactly the mapping from each selected file whose
\* predicted destination exists to that destination; with /out/a.mov existing, the
\* format whose output is .mov and only /in/a.mp4 selected, it is {a.mp4 -> /out/a.mov}.
ConflictsAreExactlyTheSelectedOnes ==
    LET conflicts == check_destination_conflicts(video_files, selected_videos,
                         output_directory, selected_format, disk)
        a == [dir |-> "/in", stem |-> << "a" >>, ext |-> ".mp4"]
    IN (Aligned /\ output_directory # "")
       => /\ DOMAIN conflicts =
                {p \in SelectedFiles :
                    exists(disk, PredictedDestination(p, output_directory, selected_format))}
          /\ \A p \in DOMAIN conflicts :
                conflicts[p] = PredictedDestination(p, output_directory, selected_format)
          /\ (SelectedFiles = {a} /\ selected_format = "MJPEG"
                /\ exists(disk, OutFile(<< "a" >>, ".mov")))
                => conflicts = [p \in {a} |-> OutFile(<< "a" >>, ".mov")]

\* the destination the adapter chosen for a format writes to, before any renaming
AdapterDestination(format_name, video_path, output_dir) ==
    IF format_name = "H.264"
    THEN HandbrakeDestination(video_path, output_dir)
    ELSE AvidemuxDestination(video_path, output_dir)

\* C9: for every file of the list and each of the two formats, the destination the
\* conflict detector predicts is the destination the adapter of that format writes to.
PredictedIsAdapterDestination ==
    \A k \in 1..Len(video_files) : \A f \in DOMAIN supported_formats :
        PredictedDestination(video_files[k], output_directory, f)
            = AdapterDestination(f, video_files[k], output_directory)

\* C10: under the skip policy a file whose destination exists is recorded as Completed
\* at once, no process being started, whether or not the tool can be located.
SkipIsImmediateSuccess ==
    [][ \A t \in 1..Len(threads) :
          LET th == threads[t]
              path == th.selected_video_paths[th.i + 1]
          IN (/\ th.pc = "loop"
              /\ th.i < Len(th.selected_video_paths)
              /\ threads'[t] # th
              /\ threads'[t].pc # "finishing"
              /\ conflict_resolution = "skip"
              /\ exists(disk, AdapterDestination(selected_format, path, output_directory)))
             => /\ threads'[t].pc = "loop"
                /\ threads'[t].statuses = Append(th.statuses, "Completed") ]_vars

\* the path with "_k" appended to its stem
Suffixed(base, k) == join(base.dir, base.stem \o << "_" \o ToString(k) >>, base.ext)

\* thread t leaves the head of its loop and starts the process of its next file
StartsProcess(t) ==
    /\ t \in 1..Len(threads)
    /\ threads[t].pc = "loop"
    /\ InAdapter(threads'[t])

\* the destination, before any renaming, of the file thread t is about to dispatch
NextDestination(t) ==
    AdapterDestination(selected_format,
                       threads[t].selected_video_paths[threads[t].i + 1], output_directory)

\* C11: under the numeric-suffix policy, when the destination of the file exists, the
\* path handed to the tool is <stem>_k<ext> for the smallest k >= 1 whose path does not
\* exist, and it is free when the process is started; with a.mov and a_1.mov
\* existing and a_2.mov not, it is a_2.mov.
SuffixPicksFirstFreeName ==
    [][ \A t \in 1..Len(threads) :
          (/\ StartsProcess(t)
           /\ conflict_resolution = "suffix"
           /\ exists(disk, NextDestination(t)))
          => LET dest == NextDestination(t)
                 output_path == threads'[t].output_path
             IN /\ ~exists(disk', output_path)
                /\ \E k \in 1..MaxSuffix :
                      /\ output_path = Suffixed(dest, k)
                      /\ \A j \in 1..(k - 1) : exists(disk, Suffixed(dest, j))
                /\ (/\ dest = OutFile(<< "a" >>, ".mov")
                    /\ exists(disk, OutFile(<< "a", "_1" >>, ".mov"))
                    /\ ~exists(disk, OutFile(<< "a", "_2" >>, ".mov")))
                   => output_path = OutFile(<< "a", "_2" >>, ".mov") ]_vars

\* a process was started on a_2.mov under the numeric-suffix policy
SecondSuffixChosen ==
    \E t \in 1..Len(threads) :
        /\ InAdapter(threads[t])
        /\ conflict_resolution = "suffix"
        /\ threads[t].output_path = OutFile(<< "a", "_2" >>, ".mov")

\* C12: under the timestamp policy, when the destination of the file exists, the path
\* handed to the tool is the destination with the _YYYYMMDD_HHMMSS token appended to
\* its stem, whether or not that path exists, for either adapter.
TimestampAppendsCurrentTime ==
    [][ \A t \in 1..Len(threads) :
          (/\ StartsProcess(t)
           /\ conflict_resolution = "timestamp"
           /\ exists(disk, NextDestination(t)))
          => LET dest == NextDestination(t)
             IN threads'[t].output_path
                   = join(dest.dir, dest.stem \o << TimestampToken >>, dest.ext) ]_vars

\* the thread has not yet left the loop over its files
Processing(th) == th.pc \in {"collect", "loop", "avidemux", "avidemux_read", "handbrake"}

\* the conflicts the detector reports in the current state
DetectedConflicts ==
    check_destination_conflicts(video_files, selected_videos, output_directory,
                                selected_format, disk)

\* C13: the stored policy does not change while is_converting is set or a worker is
\* still going through its files, so every conflict of a run meets the same policy;
\* the step that starts a run is taken while no run is active and stores overwrite
\* when no conflict is detected, and one of the four policies of the dialog otherwise.
PolicyFixedPerRun ==
    [][ /\ (is_converting \/ \E t \in 1..Len(threads) : Processing(threads[t]))
             => conflict_resolution' = conflict_resolution
        /\ Len(threads') > Len(threads)
             => /\ ~is_converting
                /\ IF DOMAIN DetectedConflicts = {}
                   THEN conflict_resolution' = "overwrite"
                   ELSE conflict_resolution' \in DialogAnswers \ {"cancel"} ]_vars

\* a second run was started with no conflict detected after a first run that had used
\* the timestamp policy, and the stored policy is overwrite
EarlierChoiceNotCarriedOver ==
    /\ Len(threads) = 2
    /\ Processing(threads[2])
    /\ DOMAIN DetectedConflicts = {}
    /\ exists(disk, OutFile(<< "a", TimestampToken >>, ".mov"))
    /\ conflict_resolution = "overwrite"

\* the line start_conversion logs when the conflict dialog is cancelled
CancelledText == "Conversion cancelled due to filename conflicts"

\* C14: the step in which the conflict dialog is cancelled is taken with conflicts
\* detected and no run active, and it starts no worker, leaves is_converting false,
\* and changes no row, no file on disk, no worker, and not the stored policy.
CancelledDialogStartsNothing ==
    [][ (last_message # CancelledText /\ last_message' = CancelledText)
        => /\ DOMAIN DetectedConflicts # {}
           /\ ~is_converting /\ ~is_converting'
           /\ UNCHANGED << threads, video_tree, disk, conflict_resolution >> ]_vars

\* the dialog was cancelled at the start of a second run, the policy of the first run
\* being still stored
DialogCancelled ==
    /\ last_message = CancelledText
    /\ Len(threads) = 1
    /\ ~is_converting
    /\ conflict_resolution = "skip"

\* every file of the thread's list was recorded as Completed
AllConverted(th) ==
    /\ Len(th.statuses) = Len(th.selected_video_paths)
    /\ \A k \in 1..Len(th.statuses) : th.statuses[k] = "Completed"

\* C15: every worker that has ended has reported a summary, and the summary is success
\* when every file of the run was converted, user-stopped when the loop was left at
\* the cancellation check, and partial only when some file was not converted and the
\* loop was not left at the cancellation check.
SummaryMatchesRun ==
    \A t \in 1..Len(threads) :
        LET th == threads[t]
        IN /\ ~Alive(th) => th.summary \in {"success", "partial", "stopped"}
           /\ th.pc = "done"
                => /\ AllConverted(th) => th.summary = "success"
                   /\ th.stop_logged => th.summary = "stopped"
                   /\ th.summary = "partial" => (~AllConverted(th) /\ ~th.stop_logged)

\* the error boxes of scan_videos and of start_conversion
ScanErrors == {"Please select an input directory", "Input directory does not exist"}
StartErrors == {"No videos to convert", "Please select videos to convert",
                "Please select an output directory"}

\* every variable but the message shown
AllButMessage ==
    << input_directory, output_directory, selected_format, video_tree, video_files,
       selected_videos, is_converting, stop_conversion, conflict_resolution,
       convert_button, selection_label, progress_var, threads, disk, avidemux_found,
       handbrake_found, input_history, input_history_index, output_history,
       output_history_index >>

\* C16: the step in which scan_videos shows one of its error boxes is taken with the
\* input directory empty or not existing, and the step in which start_conversion shows
\* one of its error boxes with the list empty, nothing selected or no output directory;
\* neither changes anything: the list, the selection, the rows, is_converting,
\* stop_conversion, the policy and the workers are as before.
ConfigErrorsMutateNothing ==
    [][ /\ (last_message' \in ScanErrors /\ last_message' # last_message)
             => /\ input_directory = "" \/ input_directory \notin ExistingDirs
                /\ UNCHANGED AllButMessage
        /\ (last_message' \in StartErrors /\ last_message' # last_message)
             => /\ video_files = << >> \/ selected_videos = << >> \/ output_directory = ""
                /\ ~is_converting
                /\ UNCHANGED AllButMessage ]_vars

\* a scan of a directory that does not exist was refused while files were listed and
\* checked
FailedScanKeptTheList ==
    /\ last_message = "Input directory does not exist"
    /\ video_tree # << >>
    /\ selected_videos # << >>

\* C17: before and between runs the Convert button is enabled exactly when the selected
\* count is positive, an output directory is set and the file list is not empty.
TriggerEnabledExactlyWhenStartable ==
    ~is_converting
    => ((convert_button.state = "normal")
          <=> (selection_label > 0 /\ output_directory # "" /\ video_files # << >>))

\* C18: the selected count and the selected_videos list are those of the rows of the
\* list whose checkbox is checked.
SelectedCountMatchesCheckedRows ==
    /\ selection_label = Len(CheckedNames(video_tree))
    /\ selected_videos = CheckedNames(video_tree)

\* In this step exactly the rows at the positions S had their checkbox inverted: no
\* other field of them changed, inverting them once more gives the row as it was,
\* and every other row is as it was.
TogglesOnly(S) ==
    /\ Len(video_tree') = Len(video_tree)
    /\ \A j \in 1..Len(video_tree) :
          IF j \in S
          THEN /\ video_tree'[j][SELECT] # video_tree[j][SELECT]
               /\ \A c \in {NAME, SIZE, DURATION, STATUS} :
                     video_tree'[j][c] = video_tree[j][c]
               /\ ToggleRow(video_tree'[j]) = video_tree[j]
          ELSE video_tree'[j] = video_tree[j]

\* C19: a click on the checkbox of a row, and space or Return on highlighted rows,
\* invert the selected flag of those rows and of no other row and change no status;
\* a second toggle of the same row gives back its original selected state.
ToggleIsLocalInvolution ==
    [][ /\ \A k \in 1..Len(video_tree) : on_video_click(k) => TogglesOnly({k})
        /\ \A S \in SUBSET (1..Len(video_tree)) :
              toggle_selected_videos(S) => TogglesOnly(S) ]_vars

\* one row of two is checked and the other is not: a single row was toggled
OneRowToggled ==
    /\ Len(video_tree) = 2
    /\ video_tree[1][SELECT] = UNCHECKED
    /\ video_tree[2][SELECT] = CHECKED
    /\ selected_videos = << video_tree[2][NAME] >>

\* the position of the first occurrence of a path in the file list (0 if absent)
ListIndex(path) ==
    LET idx == {k \in 1..Len(video_files) : video_files[k] = path}
    IN IF idx = {} THEN 0 ELSE CHOOSE k \in idx : \A j \in idx : k <= j

\* C20: a run works through its files one at a time in list order: its paths are in the
\* order of the file list, the file in an adapter is the one after the files whose
\* adapter has returned, and the run never has two external processes that it started
\* and that may be alive.
OneFileAtATimeInListOrder ==
    \A t \in 1..Len(threads) :
        LET th == threads[t]
            paths == th.selected_video_paths
        IN /\ th.processes <= 1
           /\ Len(th.statuses) = th.i
           /\ InAdapter(th)
                => /\ th.i < Len(paths)
                   /\ th.video_path = paths[th.i + 1]
                   /\ th.processes = 1
           /\ Processing(th)
                => \A j, k \in 1..Len(paths) :
                      j < k => ListIndex(paths[j]) <= ListIndex(paths[k])

\* the second of two different files is in its adapter after the first one was
\* recorded
SecondFileInAdapter ==
    \E t \in 1..Len(threads) :
        LET th == threads[t]
        IN /\ InAdapter(th)
           /\ th.i = 1
           /\ Len(th.selected_video_paths) = 2
           /\ th.selected_video_paths[1] # th.selected_video_paths[2]
           /\ ListIndex(th.selected_video_paths[1]) < ListIndex(th.selected_video_paths[2])

ScanMessages == {"Found video files", "No video files found in the selected directory"}

\* the latest handler call was a scan of the existing directory input_directory
ScanDone == last_message \in ScanMessages

\* the files (not directories) under d whose extension, lower-cased, is a video extension
VideoFilesUnder(d) ==
    SelectSeq(InputTree(d), LAMBDA p : ~IsDirectory(p) /\ Lower(p.ext) \in video_extensions)

\* C22: after a scan of directory D the list holds exactly the files under D whose
\* extension, compared case-insensitively, is a video extension: no directory, no file
\* with another extension, and nothing of an earlier list.
ScanListsExactlyTheVideoFiles ==
    ScanDone
    => /\ video_files = VideoFilesUnder(input_directory)
       /\ Len(video_tree) = Len(video_files)
       /\ \A k \in 1..Len(video_tree) : video_tree[k][NAME] = basename(video_files[k])

\* a step taken by one of the worker threads (the main thread only ever appends a thread)
WorkerStep ==
    /\ Len(threads') = Len(threads)
    /\ threads' # threads

\* C23: no step of a worker thread changes the rows of the list, the progress value or
\* the Convert button: those changes are made in steps of the main (UI) thread.
WidgetsTouchedOnlyByUIThread ==
    [][ WorkerStep => UNCHANGED << video_tree, progress_var, convert_button >> ]_vars

\* C24: no worker thread is ended by an exception that nothing caught.
NoUncaughtException ==
    \A t \in 1..Len(threads) : threads[t].pc # "crashed"

\* C25: when the Avidemux adapter comes to its check of the flag (between two reads
\* of the process output) and the flag is set, it terminates the process without
\* waiting for it and returns at once, and the file is not recorded as Completed.
AvidemuxStopsAtNextCheck ==
    [][ \A t \in 1..Len(threads) :
          (threads[t].pc = "avidemux" /\ stop_conversion /\ threads'[t] # threads[t])
             => /\ threads'[t].pc = "loop"
                /\ threads'[t].processes = threads[t].processes
                /\ Recorded(t)
                /\ Last(threads'[t].statuses) # "Completed"
                /\ threads'[t].converted = threads[t].converted ]_vars

\* the Avidemux adapter has returned from a process it terminated and did not wait for
AvidemuxProcessTerminated ==
    \E t \in 1..Len(threads) :
        /\ stop_conversion
        /\ selected_format = "MJPEG"
        /\ threads[t].pc = "loop"
        /\ threads[t].processes = 1
        /\ threads[t].statuses # << >>

\* C26: with the flag set while HandBrakeCLI is running, the adapter still waits for the
\* process to end and the file gets the status its exit code gives it; the worker then
\* leaves its loop at the check before the next file, starting no further process.
HandbrakeCancelsOnlyBetweenFiles ==
    [][ \A t \in 1..Len(threads) :
          LET th == threads[t]
              next == threads'[t]
          IN /\ (th.pc = "handbrake" /\ stop_conversion /\ next # th)
                  => /\ next.processes = th.processes - 1
                     /\ Recorded(t)
                     /\ \E o \in ToolOutcomes :
                           /\ disk' = ApplyEffect(disk, th.output_path, o.effect)
                           /\ Last(next.statuses) = IF o.rc = 0 THEN "Completed" ELSE "Failed"
             /\ (/\ selected_format = "H.264"
                 /\ th.pc = "loop"
                 /\ stop_conversion
                 /\ th.i < Len(th.selected_video_paths)
                 /\ next # th)
                  => /\ next.pc = "finishing"
                     /\ next.statuses = th.statuses
                     /\ next.processes = th.processes ]_vars

\* cancellation was requested while HandBrakeCLI is running, and the process runs on
CancelRequestedDuringHandbrake ==
    \E t \in 1..Len(threads) :
        /\ threads[t].pc = "handbrake"
        /\ stop_conversion
        /\ threads[t].processes = 1
        /\ Len(threads[t].selected_video_paths) > threads[t].i + 1

\* C27: after a scan every entry found has its row, unchecked and Ready, whether or not
\* its probe succeeded; the duration of a row is Unknown exactly when the probe of its
\* entry failed, and the entries after a failed probe are listed as well.
ProbeFailureIsNotFatal ==
    ScanDone
    => /\ Len(video_tree) = Len(FoundVideos(input_directory))
       /\ \A k \in 1..Len(video_tree) :
             LET p == FoundVideos(input_directory)[k]
             IN /\ video_tree[k][NAME] = basename(p)
                /\ video_tree[k][SELECT] = UNCHECKED
                /\ video_tree[k][STATUS] = "Ready"
                /\ (video_tree[k][DURATION] = "Unknown") <=> ProbeFails(p)

\* a scan in which the probe of the first entry failed and a later entry was probed
ScanWentOnAfterProbeFailure ==
    /\ ScanDone
    /\ Len(video_tree) = 3
    /\ video_tree[1][DURATION] = "Unknown"
    /\ video_tree[3][DURATION] = "0:05"

\* the keys every format configuration is expected to have
RequiredKeys == {"extension", "codec", "profile", "description"}

\* C28: the supported formats are exactly MJPEG and H.264, the selected format is one
\* of them, and the configuration of each has the keys extension, codec, profile and
\* description.
FormatsAreCompleteAndFixed ==
    /\ selected_format \in DOMAIN supported_formats
    /\ DOMAIN supported_formats = {"MJPEG", "H.264"}
    /\ \A f \in DOMAIN supported_formats : RequiredKeys \subseteq DOMAIN supported_formats[f]

\* nothing is listed or selected and the Convert button is disabled
ListEmptied ==
    /\ video_tree = << >>
    /\ video_files = << >>
    /\ selected_videos = << >>
    /\ selection_label = 0
    /\ convert_button.state = "disabled"

\* the tree and the file list hold exactly what a scan of input_directory finds, row by
\* row, every row unchecked and Ready, nothing selected, the Convert button disabled
ListFresh ==
    /\ video_files = FoundVideos(input_directory)
    /\ Aligned
    /\ \A k \in 1..Len(video_tree) :
          /\ video_tree[k][SELECT] = UNCHECKED
          /\ RecordedStatus(video_tree[k]) = "Ready"
    /\ selected_videos = << >>
    /\ selection_label = 0
    /\ convert_button.state = "disabled"

\* C29: a step of clear_list leaves the tree, video_files and selected_videos empty, the
\* count 0 and the Convert button disabled; a step of scan_videos on an existing
\* directory leaves the three structures describing exactly what the scan found, all
\* unchecked and Ready, whatever was listed, checked or recorded before.
ClearAndScanDestroyRecords ==
    [][ /\ clear_list => ListEmptied'
        /\ (scan_videos /\ input_directory \in ExistingDirs) => ListFresh' ]_vars

\* a scan has replaced a list of another directory
ListReplacedByScan ==
    /\ ScanDone
    /\ input_directory = "/in"
    /\ Len(video_files) = 2
    /\ video_files[1].dir = "/in"
    /\ ListFresh

\* C30: the progress value is always between 0 and 100 and no step of the worker lowers
\* it; the value set when a file is dispatched is the percentage of the files gone
\* through so far; and it becomes 100 only when every file of the run has been gone
\* through.
ProgressIsMonotoneFraction ==
    [][ /\ progress_var' \in 0..100
        /\ WorkerStep => progress_var' >= progress_var
        /\ \A t \in 1..Len(threads) :
              LET th == threads[t]
                  total_videos == Len(th.selected_video_paths)
              IN /\ (th.pc = "loop" /\ threads'[t] # th /\ threads'[t].pc # "finishing")
                      => progress_var' = (Len(th.statuses) * 100) \div total_videos
                 /\ (threads'[t] # th /\ progress_var' = 100 /\ progress_var # 100)
                      => Len(threads'[t].statuses) = total_videos ]_vars

\* C31: when a run hands a file to an adapter, it is the HandBrake adapter if the run
\* was started with H.264 and the Avidemux adapter if it was started with MJPEG, and the
\* adapter writes into the output directory the run was started with.
AdapterFixedPerRun ==
    [][ \A t \in 1..Len(threads) :
          LET th == threads[t]
              nx == threads'[t]
          IN (th.pc = "loop" /\ InAdapter(nx))
                => /\ (nx.pc = "handbrake") <=> (th.format_at_start = "H.264")
                   /\ nx.output_path.dir = th.output_at_start ]_vars

\* C32: whenever a run is active (is_converting is true), a later state has
\* is_converting false again, so that the button starts a run instead of requesting
\* cancellation.
StartedRunEventuallyFinishes ==
    is_converting ~> ~is_converting

\* the files of the checked rows, row by row (the file of row k is video_files[k])
CheckedFiles ==
    LET rows == SelectSeq([k \in 1..Len(video_tree) |-> k],
                          LAMBDA k : video_tree[k][SELECT] = CHECKED)
    IN [j \in 1..Len(rows) |-> video_files[rows[j]]]

\* C33: when the worker reads the checked rows of a list that matches the file list row
\* by row, the paths of the run are the files of the checked rows, each with its own
\* path and each once.
EachCheckedFileOnceWithOwnPath ==
    [][ \A t \in 1..Len(threads) :
          (threads[t].pc = "collect" /\ threads'[t].pc = "loop" /\ Aligned)
             => /\ threads'[t].selected_video_paths = CheckedFiles
                /\ \A j, k \in 1..Len(threads'[t].selected_video_paths) :
                      j # k => threads'[t].selected_video_paths[j]
                                  # threads'[t].selected_video_paths[k] ]_vars

\* C34: once the worker has read the checked rows, the files of the run are the files
\* that were selected when start_conversion accepted the request, the ones the conflict
\* check was run on: the same names, and as many.
RunProcessesWhatWasSelectedAtStart ==
    \A t \in 1..Len(threads) :
        LET th == threads[t]
            paths == th.selected_video_paths
        IN th.pc \notin {"collect", "crashed"}
           => /\ {basename(paths[k]) : k \in 1..Len(paths)}
                    = {th.selected_at_start[k] : k \in 1..Len(th.selected_at_start)}
              /\ Len(paths) = Len(th.selected_at_start)

\* the line start_conversion logs when it records a stop request
StoppingText == "Stopping conversion..."

UndoWalksTheHistory ==
    [][ /\ (undo_input_directory /\ input_history_index > 0)
              => /\ input_history' = input_history
                 /\ input_history_index' = input_history_index - 1
                 /\ input_directory' = input_history[input_history_index' + 1]
        /\ (undo_output_directory /\ output_history_index > 0)
              => /\ output_history' = output_history
                 /\ output_history_index' = output_history_index - 1
                 /\ output_directory' = output_history[output_history_index' + 1] ]_vars

\* a history of at most HistoryLimit entries, none of them empty, no two neighbours
\* equal, with an index that is -1 for the empty history and a position in it otherwise
WellFormedHistory(history, index) ==
    /\ Len(history) <= HistoryLimit
    /\ \A k \in 1..Len(history) : history[k] # ""
    /\ \A k \in 1..(Len(history) - 1) : history[k] # history[k + 1]
    /\ IF history = << >> THEN index = -1 ELSE index \in 0..(Len(history) - 1)

\* C37: each of the two directory histories holds at most 20 entries, no empty string
\* and no two equal consecutive entries, and its index is -1 when the history is empty
\* and between 0 and len(history) - 1 otherwise.
HistoriesAreWellFormed ==
    /\ WellFormedHistory(input_history, input_history_index)
    /\ WellFormedHistory(output_history, output_history_index)

\* both histories are full, the input index is at the last entry, and the input field
\* has been emptied since the last entry was recorded
BothHistoriesFull ==
    /\ Len(input_history) = HistoryLimit
    /\ Len(output_history) = HistoryLimit
    /\ input_history_index = HistoryLimit - 1
    /\ input_directory = ""

====
